---- MODULE Spec2Model ----
(***************************************************************************)
(* The hands-free voice controller of src/services/voiceController.ts as a *)
(* state machine: the VoiceController object, the recognition engine and   *)
(* the synthesis queue it drives, the timers it arms, and the public calls *)
(* the application makes on it.  Every action is one JavaScript task (a    *)
(* public call, an engine or synthesis event handler, a timer callback)    *)
(* run to completion, nested calls included.                               *)
(***************************************************************************)
EXTENDS Integers, Sequences, FiniteSets, TLC

(* ---------------- bounds of the model ---------------- *)
\* largest value of errorRetryCount explored by Spec
MaxRetry == 2
\* largest value of errorRetryCount a recoverable error finds in SpecBackoff
\* (2^6 * 500 already exceeds the 30000 ms cap)
MaxAttempt == 9
\* most timers pending at once that the model can represent
MaxTimers == 2
\* most utterances handed to the synthesis queue and not yet terminated
MaxUtts == 2
\* most words (entries of Words) in a transcript of SpecCommands
MaxWords == 2
\* most callback slots that hold a function supplied after construction, in
\* SpecConfig
MaxReplaced == 1

(* ---------------- program constants ---------------- *)
BaseDelay == 500
MaxBackoff == 30000
JitterRange == 250
RestartDelay == 250

\* Math.random() * 250 lies in [0, 250); these samples cover both ends
JitterSamples == {0, JitterRange - 1}

(* ---------------- strings as sequences of characters ---------------- *)
UpperChars == <<"A","B","C","D","E","F","G","H","I","J","K","L","M","N","O","P","Q","R","S","T","U","V","W","X","Y","Z">>
LowerChars == <<"a","b","c","d","e","f","g","h","i","j","k","l","m","n","o","p","q","r","s","t","u","v","w","x","y","z">>

ToLowerChar(c) ==
    IF \E i \in 1..Len(UpperChars) : UpperChars[i] = c
    THEN LowerChars[CHOOSE i \in 1..Len(UpperChars) : UpperChars[i] = c]
    ELSE c

\* String.prototype.toLowerCase
ToLowerCase(str) == [i \in 1..Len(str) |-> ToLowerChar(str[i])]

IsSpace(c) == c = " "

\* String.prototype.trim
Trim(str) ==
    LET keep == {i \in 1..Len(str) : ~IsSpace(str[i])}
    IN  IF keep = {} THEN <<>>
        ELSE LET lo == CHOOSE i \in keep : \A j \in keep : i <= j
                 hi == CHOOSE i \in keep : \A j \in keep : j <= i
             IN  SubSeq(str, lo, hi)

\* String.prototype.includes
Includes(str, p) ==
    \E i \in 1..(Len(str) - Len(p) + 1) : SubSeq(str, i, i + Len(p) - 1) = p

\* commands.xxx.some(p => command.includes(p))
SomeIncludes(phrases, command) ==
    \E k \in 1..Len(phrases) : Includes(command, phrases[k])

IsWordChar(c) ==
    \/ \E i \in 1..Len(LowerChars) : LowerChars[i] = c
    \/ \E i \in 1..Len(UpperChars) : UpperChars[i] = c
    \/ c \in {"0","1","2","3","4","5","6","7","8","9","_"}

\* the word w occurs in str between two \b word boundaries
WordAt(str, w, i) ==
    /\ SubSeq(str, i, i + Len(w) - 1) = w
    /\ (i = 1 \/ ~IsWordChar(str[i - 1]))
    /\ (i + Len(w) - 1 = Len(str) \/ ~IsWordChar(str[i + Len(w)]))

\* new RegExp(`\\b(${words.join('|')})\\b`).test(str)
WordPatternTest(words, str) ==
    \E k \in 1..Len(words) :
        \E i \in 1..(Len(str) - Len(words[k]) + 1) : WordAt(str, words[k], i)

(* ---------------- the command tables ---------------- *)
navigationPhrases ==
    << <<"o","p","e","n"," ","n","a","v","i","g","a","t","i","o","n">>,
       <<"n","a","v","i","g","a","t","i","o","n">>,
       <<"n","a","v","i","g","a","t","e">> >>
textReadPhrases ==
    << <<"o","p","e","n"," ","t","e","x","t">>,
       <<"t","e","x","t"," ","r","e","a","d">>,
       <<"r","e","a","d"," ","t","e","x","t">>,
       <<"o","p","e","n"," ","r","e","a","d","e","r">> >>
settingsPhrases ==
    << <<"o","p","e","n"," ","s","e","t","t","i","n","g","s">>,
       <<"s","e","t","t","i","n","g","s">>,
       <<"p","r","e","f","e","r","e","n","c","e","s">> >>
closePhrases ==
    << <<"c","l","o","s","e">>,
       <<"g","o"," ","h","o","m","e">>,
       <<"h","o","m","e"," ","s","c","r","e","e","n">>,
       <<"e","x","i","t">>,
       <<"s","t","o","p">>,
       <<"s","t","o","p"," ","n","a","v","i","g","a","t","i","o","n">>,
       <<"s","t","o","p"," ","t","e","x","t"," ","r","e","a","d","e","r">> >>
hapticKeywords ==
    << <<"h","a","p","t","i","c">>,
       <<"h","a","p","t","i","c","s">>,
       <<"v","i","b","r","a","t","i","o","n">> >>
audioKeywords ==
    << <<"a","u","d","i","o">>,
       <<"s","o","u","n","d">>,
       <<"f","e","e","d","b","a","c","k">> >>
onWords ==
    << <<"o","n">>,
       <<"e","n","a","b","l","e">>,
       <<"s","t","a","r","t">> >>
offWords ==
    << <<"o","f","f">>,
       <<"d","i","s","a","b","l","e">>,
       <<"s","t","o","p">> >>
batteryWord == <<"b","a","t","t","e","r","y">>

toggleableSettings ==
    << [name |-> "haptic", keywords |-> hapticKeywords],
       [name |-> "audio", keywords |-> audioKeywords] >>

NoIntent == [rule |-> "none", setting |-> "", value |-> FALSE]
Intent(r) == [rule |-> r, setting |-> "", value |-> FALSE]
\* variant: the value of the toggle is the opposite of the modifier
ToggleInverted(n, v) == [rule |-> "toggle", setting |-> n, value |-> ~v]
Toggle(n, v) == [rule |-> "toggle", setting |-> n, value |-> v]

\* variant: a setting keyword alone toggles, enabling unless told otherwise
ToggleFromKeywordOnly(command, k) ==
    IF WordPatternTest(hapticKeywords, command)
    THEN Toggle("haptic", ~WordPatternTest(offWords, command))
    ELSE IF WordPatternTest(audioKeywords, command)
    THEN Toggle("audio", ~WordPatternTest(offWords, command))
    ELSE NoIntent

\* the for-loop over toggleableSettings, from index k on
RECURSIVE ToggleFrom(_, _)
ToggleFrom(command, k) ==
    IF k > Len(toggleableSettings) THEN NoIntent
    ELSE IF WordPatternTest(toggleableSettings[k].keywords, command)
         THEN IF WordPatternTest(onWords, command)
              THEN Toggle(toggleableSettings[k].name, TRUE)
              ELSE IF WordPatternTest(offWords, command)
                   THEN Toggle(toggleableSettings[k].name, FALSE)
                   ELSE ToggleFrom(command, k + 1)
         ELSE ToggleFrom(command, k + 1)

\* variant: the settings rule is tried before the close rule
MatchCommandSettingsFirst(command) ==
    IF SomeIncludes(settingsPhrases, command) THEN Intent("settings")
    ELSE IF SomeIncludes(closePhrases, command) THEN Intent("close")
    ELSE IF SomeIncludes(navigationPhrases, command) THEN Intent("navigation")
    ELSE IF SomeIncludes(textReadPhrases, command) THEN Intent("textRead")
    ELSE IF ToggleFrom(command, 1).rule = "toggle" THEN ToggleFrom(command, 1)
    ELSE IF Includes(command, batteryWord) THEN Intent("battery")
    ELSE NoIntent

\* which branch of processVoiceCommand a command takes
MatchCommand(command) ==
    IF SomeIncludes(closePhrases, command) THEN Intent("close")
    ELSE IF SomeIncludes(navigationPhrases, command) THEN Intent("navigation")
    ELSE IF SomeIncludes(textReadPhrases, command) THEN Intent("textRead")
    ELSE IF SomeIncludes(settingsPhrases, command) THEN Intent("settings")
    ELSE IF ToggleFrom(command, 1).rule = "toggle" THEN ToggleFrom(command, 1)
    ELSE IF Includes(command, batteryWord) THEN Intent("battery")
    ELSE NoIntent

(* ---------------- inputs ---------------- *)
\* raw transcripts the recognition engine may deliver
RawTranscripts ==
    << <<"O","p","e","n"," ","N","a","v","i","g","a","t","i","o","n">>,
       <<"c","l","o","s","e"," ","s","e","t","t","i","n","g","s">>,
       <<"t","u","r","n"," ","h","a","p","t","i","c"," ","o","f","f">>,
       <<"h","a","p","t","i","c">>,
       <<" ","S","o","u","n","d"," ","O","N"," ">>,
       <<"r","e","a","d"," ","t","e","x","t">>,
       <<"p","r","e","f","e","r","e","n","c","e","s">>,
       <<"b","a","t","t","e","r","y">>,
       <<"h","e","l","l","o">>,
       <<" "," ">>,
       <<>> >>

\* event.results[last][0].transcript.toLowerCase().trim()
Normalize(raw) == Trim(ToLowerCase(raw))

\* the branch taken for each raw transcript (computed once)
IntentOfRaw == [k \in 1..Len(RawTranscripts) |-> MatchCommand(Normalize(RawTranscripts[k]))]
EmptyAfterTrim == {k \in 1..Len(RawTranscripts) : Normalize(RawTranscripts[k]) = <<>>}

(* ---------------- state ---------------- *)
VARIABLES
    recognition,      \* this.recognition is an engine handle (FALSE: null)
    speechSynthesis,  \* window.speechSynthesis exists
    isListening,
    isSpeaking,
    isErrorRecovery,
    errorRetryCount,
    restartTimer,     \* handle of the last timer armed, 0: null
    currentUtterance, \* this.currentUtterance holds an utterance (FALSE: null)
    config,           \* autoStart, provideFeedback, language and the callback slots
    handlers,         \* the callbacks the constructor copied into fields
    lang,             \* recognition.lang ("": there is no recognition handle)
    engine,           \* the recognition engine's session
    timers,           \* timers armed with window.setTimeout and still pending
    utts,             \* utterances given to the synthesis queue, oldest first
    pending,          \* number of speak() promises not yet resolved
    fatalSeen,        \* a fatal error was handled and no recognition start was issued since
    destroyed,        \* destroy() was called and no public call was made since
    reenabled,        \* the session was started by start() after a fatal error and
                      \* updateConfig({autoStart: true}), and nothing else happened to it
    stopped,          \* stop() was called, and since then no public call was made and
                      \* no utterance that had suspended recognition has terminated
    trace             \* what the task that ran last did, its entry first

vars == << recognition, speechSynthesis, isListening, isSpeaking, isErrorRecovery,
           errorRetryCount, restartTimer, currentUtterance, config, handlers, lang, engine,
           timers, utts, pending, fatalSeen, destroyed, reenabled, stopped, trace >>

\* the fields a handler reads and writes, as one value
Cur ==
    [ recognition |-> recognition, speechSynthesis |-> speechSynthesis,
      isListening |-> isListening, isSpeaking |-> isSpeaking,
      isErrorRecovery |-> isErrorRecovery, errorRetryCount |-> errorRetryCount,
      restartTimer |-> restartTimer, currentUtterance |-> currentUtterance,
      config |-> config, handlers |-> handlers, lang |-> lang,
      engine |-> engine, timers |-> timers, utts |-> utts,
      pending |-> pending, trace |-> <<>> ]

Ev(op, arg, flag, num) == [op |-> op, arg |-> arg, flag |-> flag, num |-> num]

Log(s, e) == [s EXCEPT !.trace = Append(@, e)]

\* the task starts: its entry point, with the attempt counter it finds
Enter(s, op, arg, flag) == Log(s, Ev(op, arg, flag, s.errorRetryCount))

Min(a, b) == IF a <= b THEN a ELSE b

IgnoredErrors == {"aborted", "no-speech"}
FatalErrors == {"not-allowed", "service-not-allowed", "audio-capture"}
\* error codes the engine reports; "network" stands for every other code
EngineErrors == IgnoredErrors \cup FatalErrors \cup {"network"}

(* ---------------- the application's callbacks ---------------- *)
\* a function is named by its version: 0 is the one given at construction (or
\* the default), 1 and up are functions supplied later
\* this.onVoiceStatusChange(status, listening)
Status(s, status, listening) ==
    Log(s, Ev("onVoiceStatusChange", status, listening, s.handlers.onVoiceStatusChange))

\* the callbacks processVoiceCommand calls through the fields
CopiedSlots == {"onNavigationOpen", "onTextReadOpen", "onSettingsOpen", "onModeClose",
                "onVoiceStatusChange"}

\* the callbacks processVoiceCommand calls through this.config
ConfigSlots == {"onToggleSetting", "onCheckBattery"}

\* this.onXxx(...) or this.config.onXxx?.(...): the event names the function called
Callback(s, name, arg, flag) ==
    Log(s, Ev(name, arg, flag, IF name \in CopiedSlots THEN s.handlers[name]
                               ELSE s.config[name]))

(* ---------------- window.setTimeout / clearTimeout ---------------- *)
TimerIds(s) == {t.id : t \in s.timers}

\* variant: the handle is never cleared before a new timer is armed
ClearTimeoutForgets(s) == s

\* if (this.restartTimer) clearTimeout(this.restartTimer)
ClearTimeout(s) ==
    IF s.restartTimer # 0 /\ s.restartTimer \in TimerIds(s)
    THEN Log([s EXCEPT !.timers = {t \in @ : t.id # s.restartTimer}],
             Ev("clearTimeout", "cancelled", TRUE, 0))
    ELSE s

\* this.restartTimer = window.setTimeout(callback, delay)
SetTimeout(s, kind, delay) ==
    LET free == (1..(MaxTimers + 1)) \ TimerIds(s)
        id == CHOOSE i \in free : \A j \in free : i <= j
    IN  Log([s EXCEPT !.timers = @ \cup {[id |-> id, kind |-> kind]},
                      !.restartTimer = id],
            Ev("setTimeout", kind, FALSE, delay))

(* ---------------- the recognition engine's methods ---------------- *)
\* start() on a session that has not ended throws InvalidStateError
StartThrows(s) == s.engine # "idle"

\* the session that an accepted start() begins uses the handle's language
StartedIn(language) ==
    [op |-> "recognition.start", arg |-> "ok", flag |-> TRUE, num |-> 0, lang |-> language]

RecognitionStart(s) ==
    IF StartThrows(s) THEN Log(s, Ev("recognition.start", "throws", FALSE, 0))
    ELSE Log([s EXCEPT !.engine = "starting"], StartedIn(s.lang))

RecognitionStop(s) ==
    Log([s EXCEPT !.engine = IF @ \in {"starting", "running"} THEN "stopping" ELSE @],
        Ev("recognition.stop", "", FALSE, 0))

RecognitionAbort(s) ==
    Log([s EXCEPT !.engine = IF @ \in {"starting", "running", "stopping"}
                             THEN "aborting" ELSE @],
        Ev("recognition.abort", "", FALSE, 0))

(* ---------------- the synthesis queue's methods ---------------- *)
\* speechSynthesis.cancel(): every utterance of the queue is removed and is
\* owed its terminal event
SynthCancel(s) ==
    Log([s EXCEPT !.utts = [i \in 1..Len(@) |-> [@[i] EXCEPT !.cancelled = TRUE]]],
        Ev("speechSynthesis.cancel", "", FALSE, 0))

\* the utterance made by new SpeechSynthesisUtterance(text) is handed over
Spoken(text, wasListening) ==
    [op |-> "speechSynthesis.speak", arg |-> "", flag |-> wasListening, num |-> 0,
     text |-> text]

SynthSpeak(s, u, text) ==
    Log([s EXCEPT !.utts = Append(@, u)], Spoken(text, u.wasListening))

(* ---------------- recognition handlers ---------------- *)
\* an onstart that takes a started session for a success
OnStartResetsCount(s) ==
    Status([s EXCEPT !.isListening = TRUE, !.errorRetryCount = 0], "Listening...", TRUE)

\* variant: the started session is not reported
OnStartSilent(s) == [s EXCEPT !.isListening = TRUE]

\* recognition.onstart
OnStart(s) == Status([s EXCEPT !.isListening = TRUE], "Listening...", TRUE)

\* variant: the end of the session leaves the listening flag as it is
OnEndKeepsListening(s) ==
    IF s.isErrorRecovery \/ s.isSpeaking THEN s
    ELSE IF s.config.autoStart
         THEN SetTimeout(ClearTimeout(s), "restart", RestartDelay)
         ELSE Status(s, "Voice disabled", FALSE)

\* variant: the restart is armed whatever autoStart says
OnEndAlwaysRestarts(s) ==
    LET s1 == [s EXCEPT !.isListening = FALSE]
    IN  IF s1.isErrorRecovery \/ s1.isSpeaking THEN s1
        ELSE SetTimeout(ClearTimeout(s1), "restart", RestartDelay)

\* recognition.onend
OnEnd(s) ==
    LET s1 == [s EXCEPT !.isListening = FALSE]
    IN  IF s1.isErrorRecovery \/ s1.isSpeaking THEN s1
        ELSE IF s1.config.autoStart
             THEN SetTimeout(ClearTimeout(s1), "restart", RestartDelay)
             ELSE Status(s1, "Voice disabled", FALSE)

\* variant: the delay is not capped
BackoffDelayUncapped(n, jitter) == (2 ^ n) * BaseDelay + jitter

\* Math.min(30000, Math.pow(2, this.errorRetryCount) * baseDelay) + jitter
BackoffDelay(n, jitter) == Min(MaxBackoff, (2 ^ n) * BaseDelay) + jitter

\* variant: the recovery flag is set before the ignored codes are tested
OnErrorFlagsFirst(s, error, jitter) ==
    LET s2 == [s EXCEPT !.isListening = FALSE, !.isErrorRecovery = TRUE]
    IN  IF error \in IgnoredErrors THEN s2
        ELSE IF error \in {"not-allowed", "service-not-allowed"}
        THEN [Status(s2, "Microphone permission denied", FALSE)
                EXCEPT !.config.autoStart = FALSE]
        ELSE IF error = "audio-capture"
        THEN [Status(s2, "Microphone not available", FALSE)
                EXCEPT !.config.autoStart = FALSE]
        ELSE
        LET s3 == [s2 EXCEPT !.errorRetryCount = @ + 1]
            s4 == Status(s3, "Voice connection issue. Retrying...", FALSE)
        IN  SetTimeout(ClearTimeout(s4), "retry", BackoffDelay(s3.errorRetryCount, jitter))

\* recognition.onerror
OnError(s, error, jitter) ==
    LET s1 == [s EXCEPT !.isListening = FALSE]
    IN  IF error \in IgnoredErrors THEN s1
        ELSE
        LET s2 == [s1 EXCEPT !.isErrorRecovery = TRUE]
        IN  IF error \in {"not-allowed", "service-not-allowed"}
            THEN [Status(s2, "Microphone permission denied", FALSE)
                    EXCEPT !.config.autoStart = FALSE]
            ELSE IF error = "audio-capture"
            THEN [Status(s2, "Microphone not available", FALSE)
                    EXCEPT !.config.autoStart = FALSE]
            ELSE
            LET s3 == [s2 EXCEPT !.errorRetryCount = @ + 1]
                backoffDelay == BackoffDelay(s3.errorRetryCount, jitter)
                s4 == Status(s3, "Voice connection issue. Retrying...", FALSE)
            IN  SetTimeout(ClearTimeout(s4), "retry", backoffDelay)

\* variant: the recognition handle is not tested
StartListeningUnguarded(s, jitter) ==
    LET s1 == ClearTimeout(s)
    IN  IF ~s1.isListening
        THEN LET s2 == RecognitionStart(s1)
             IN  IF StartThrows(s1) /\ ~s2.isErrorRecovery
                 THEN OnError(s2, "start-failed", jitter)
                 ELSE s2
        ELSE s1

\* startListening()
StartListening(s, jitter) ==
    LET s1 == ClearTimeout(s)
    IN  IF s1.recognition /\ ~s1.isListening
        THEN LET s2 == RecognitionStart(s1)
             IN  IF StartThrows(s1) /\ ~s2.isErrorRecovery
                 THEN OnError(s2, "start-failed", jitter)
                 ELSE s2
        ELSE s1

\* variant: the pending timer is left armed
StopListeningKeepsTimer(s) ==
    LET s2 == IF s.recognition THEN RecognitionAbort(s) ELSE s
    IN  Status([s2 EXCEPT !.isListening = FALSE], "Voice paused", FALSE)

\* stopListening()
StopListening(s) ==
    LET s1 == ClearTimeout(s)
        s2 == IF s1.recognition THEN RecognitionAbort(s1) ELSE s1
    IN  Status([s2 EXCEPT !.isListening = FALSE], "Voice paused", FALSE)

(* ---------------- speech ---------------- *)
\* variant: the handler returns without calling resolve()
ResolveForgotten(s) == s

\* resolve() of the promise a speak call returned
Resolve(s) == Log([s EXCEPT !.pending = @ - 1], Ev("resolve", "", FALSE, 0))

\* variant: empty text is not checked for
SpeakSkipsIgnoringText(s, text) == ~s.speechSynthesis \/ ~s.config.provideFeedback

\* !this.speechSynthesis || !this.config.provideFeedback || !text
SpeakSkips(s, text) == ~s.speechSynthesis \/ ~s.config.provideFeedback \/ text = ""

\* the snapshot taken by speak
WasListening(s) == s.isListening /\ s.config.autoStart

\* speak(text); the promise is counted from its creation to its resolve()
Speak(s, text) ==
    LET p == [s EXCEPT !.pending = @ + 1]
    IN  IF SpeakSkips(p, text) THEN Resolve(p)
        ELSE
        LET wasListening == WasListening(p)
            s1 == SynthCancel(p)
            s2 == IF wasListening
                  THEN LET s2a == [s1 EXCEPT !.isSpeaking = TRUE]
                       IN  IF s2a.recognition THEN RecognitionStop(s2a) ELSE s2a
                  ELSE s1
            u == [wasListening |-> wasListening, cancelled |-> FALSE]
            s3 == [s2 EXCEPT !.currentUtterance = TRUE]
        IN  SynthSpeak(s3, u, text)

\* variant: recognition is resumed whatever the snapshot was
UtteranceOnEndAlwaysResumes(s, u, jitter) ==
    LET s1 == [s EXCEPT !.currentUtterance = FALSE]
    IN  Resolve(StartListening(ClearTimeout([s1 EXCEPT !.isSpeaking = FALSE]), jitter))

\* utterance.onend of the utterance u
UtteranceOnEnd(s, u, jitter) ==
    LET s1 == [s EXCEPT !.currentUtterance = FALSE]
        s2 == IF u.wasListening
              THEN StartListening(ClearTimeout([s1 EXCEPT !.isSpeaking = FALSE]), jitter)
              ELSE s1
    IN  Resolve(s2)

\* variant: an interrupted call is left waiting for the utterance that replaced it
UtteranceOnErrorKeepsWaiting(s, u, jitter) ==
    LET s1 == [s EXCEPT !.currentUtterance = FALSE]
        s2 == IF u.wasListening
              THEN StartListening(ClearTimeout([s1 EXCEPT !.isSpeaking = FALSE]), jitter)
              ELSE s1
    IN  IF u.cancelled THEN s2 ELSE Resolve(s2)

\* utterance.onerror of the utterance u
UtteranceOnError(s, u, jitter) ==
    LET s1 == [s EXCEPT !.currentUtterance = FALSE]
        s2 == IF u.wasListening
              THEN StartListening(ClearTimeout([s1 EXCEPT !.isSpeaking = FALSE]), jitter)
              ELSE s1
    IN  Resolve(s2)

\* variant: nothing is cancelled
StopSpeakingIdle(s) == s

\* stopSpeaking()
StopSpeaking(s) == IF s.speechSynthesis THEN SynthCancel(s) ELSE s

(* ---------------- command dispatch ---------------- *)
\* `${capitalizedSetting} enabled.` / `${capitalizedSetting} disabled.`
ToggleText(name, value) ==
    IF name = "haptic"
    THEN (IF value THEN "Haptic enabled." ELSE "Haptic disabled.")
    ELSE (IF value THEN "Audio enabled." ELSE "Audio disabled.")

\* variant: the confirmation is never spoken
FeedbackForgotten(s, text) == s

\* if (this.config.provideFeedback) this.speak(text)
Feedback(s, text) == IF s.config.provideFeedback THEN Speak(s, text) ELSE s

\* variant: the battery status is fetched but never spoken
ProcessVoiceCommandBatterySilent(s, m, battery) ==
    IF m.rule = "close"
    THEN Feedback(Callback(StopSpeaking(s), "onModeClose", "", FALSE),
                  "Returning to home screen")
    ELSE IF m.rule = "navigation"
    THEN Feedback(Callback(s, "onNavigationOpen", "", FALSE), "Opening Navigation")
    ELSE IF m.rule = "textRead"
    THEN Feedback(Callback(s, "onTextReadOpen", "", FALSE), "Opening Text Reader")
    ELSE IF m.rule = "settings"
    THEN Feedback(Callback(s, "onSettingsOpen", "", FALSE), "Opening Settings")
    ELSE IF m.rule = "toggle"
    THEN Feedback(Callback(s, "onToggleSetting", m.setting, m.value),
                  ToggleText(m.setting, m.value))
    ELSE IF m.rule = "battery"
    THEN Callback(s, "onCheckBattery", battery, FALSE)
    ELSE s

\* processVoiceCommand(command), with the branch m the command takes and the
\* text onCheckBattery returns
ProcessVoiceCommand(s, m, battery) ==
    IF m.rule = "close"
    THEN Feedback(Callback(StopSpeaking(s), "onModeClose", "", FALSE),
                  "Returning to home screen")
    ELSE IF m.rule = "navigation"
    THEN Feedback(Callback(s, "onNavigationOpen", "", FALSE), "Opening Navigation")
    ELSE IF m.rule = "textRead"
    THEN Feedback(Callback(s, "onTextReadOpen", "", FALSE), "Opening Text Reader")
    ELSE IF m.rule = "settings"
    THEN Feedback(Callback(s, "onSettingsOpen", "", FALSE), "Opening Settings")
    ELSE IF m.rule = "toggle"
    THEN Feedback(Callback(s, "onToggleSetting", m.setting, m.value),
                  ToggleText(m.setting, m.value))
    ELSE IF m.rule = "battery"
    THEN LET s1 == Callback(s, "onCheckBattery", battery, FALSE)
         IN  IF battery # "" /\ s1.config.provideFeedback THEN Speak(s1, battery) ELSE s1
    ELSE s

\* variant: a result leaves the counter as it is
ResetRetryCountSkipped(s) == s

\* this.errorRetryCount = 0
ResetRetryCount(s) == [s EXCEPT !.errorRetryCount = 0]

\* shapes of a result event: no results, a last result without alternatives,
\* or the raw transcript RawTranscripts[k]
ResultEvents ==
    {[shape |-> "noResults", k |-> 0], [shape |-> "noAlternatives", k |-> 0]}
        \cup {[shape |-> "transcript", k |-> k] : k \in 1..Len(RawTranscripts)}

\* recognition.onresult
OnResult(s, event, battery) ==
    LET s1 == ResetRetryCount(s)
    IN  IF event.shape # "transcript" THEN s1
        ELSE IF event.k \in EmptyAfterTrim THEN s1
        ELSE ProcessVoiceCommand(Status(s1, "Heard", TRUE), IntentOfRaw[event.k], battery)

(* ---------------- configuration and teardown ---------------- *)
ConfigFields == {"autoStart", "provideFeedback"}
Partials == UNION {[D -> BOOLEAN] : D \in SUBSET ConfigFields}

\* variant: the language is not passed on to the recognition handle
UpdateConfigKeepsLang(s, newConfig) ==
    [s EXCEPT !.config = [f \in DOMAIN @ |->
                            IF f \in DOMAIN newConfig THEN newConfig[f] ELSE @[f]]]

\* updateConfig(newConfig)
UpdateConfig(s, newConfig) ==
    LET s1 == [s EXCEPT !.config = [f \in DOMAIN @ |->
                                      IF f \in DOMAIN newConfig THEN newConfig[f] ELSE @[f]]]
    IN  IF s1.recognition THEN [s1 EXCEPT !.lang = s1.config.language] ELSE s1

\* destroy(); without a synthesis object the last statement throws
Destroy(s) ==
    LET s1 == [ClearTimeout(s) EXCEPT !.config.autoStart = FALSE]
        s2 == IF s1.recognition THEN RecognitionAbort(s1) ELSE s1
    IN  IF s2.speechSynthesis THEN SynthCancel(s2)
        ELSE Log(s2, Ev("throw", "TypeError", FALSE, 0))

DefaultLanguage == "en-US"

\* new VoiceController(options): constructor, init, setupVoiceRecognition
Construct(hasRecognition, hasSynthesis, autoStart, provideFeedback) ==
    LET s0 == [ recognition |-> FALSE, speechSynthesis |-> hasSynthesis,
                isListening |-> FALSE, isSpeaking |-> FALSE,
                isErrorRecovery |-> FALSE, errorRetryCount |-> 0,
                restartTimer |-> 0, currentUtterance |-> FALSE,
                config |-> [autoStart |-> autoStart, provideFeedback |-> provideFeedback,
                            language |-> DefaultLanguage,
                            onNavigationOpen |-> 0, onTextReadOpen |-> 0,
                            onSettingsOpen |-> 0, onModeClose |-> 0,
                            onVoiceStatusChange |-> 0, onToggleSetting |-> 0,
                            onCheckBattery |-> 0],
                handlers |-> [f \in CopiedSlots |-> 0], lang |-> "",
                engine |-> "idle", timers |-> {}, utts |-> <<>>, pending |-> 0,
                trace |-> <<Ev("constructor", "", autoStart, 0)>> ]
    IN  IF ~hasRecognition
        THEN Status(s0, "Speech recognition not supported", FALSE)
        ELSE LET s1 == [s0 EXCEPT !.recognition = TRUE, !.lang = s0.config.language]
             IN  IF s1.config.autoStart THEN StartListening(s1, 0) ELSE s1

(* ---------------- the state machine ---------------- *)
Bounded(s, maxRetry) ==
    /\ s.errorRetryCount <= maxRetry
    /\ Cardinality(s.timers) <= MaxTimers
    /\ Len(s.utts) <= MaxUtts
    /\ s.pending <= MaxUtts

HasEvent(tr, op, arg) == \E i \in 1..Len(tr) : tr[i].op = op /\ tr[i].arg = arg

StartIssued(tr) == \E i \in 1..Len(tr) : tr[i].op = "recognition.start"

FatalHandled(tr) ==
    \/ HasEvent(tr, "onVoiceStatusChange", "Microphone permission denied")
    \/ HasEvent(tr, "onVoiceStatusChange", "Microphone not available")

\* fatalSeen after the task whose result is s
NextFatalSeen(s, before) ==
    IF FatalHandled(s.trace) THEN TRUE
    ELSE IF StartIssued(s.trace) THEN FALSE
    ELSE before

PublicCalls == {"start()", "stop()", "speak()", "stopSpeaking()", "updateConfig()", "destroy()"}

\* destroyed after the task whose result is s
NextDestroyed(s, before) ==
    IF s.trace[1].op = "destroy()" THEN TRUE
    ELSE IF s.trace[1].op \in PublicCalls THEN FALSE
    ELSE before

\* reenabled after the task whose result is s: set by a start() that begins a
\* session when the last fatal error was followed by updateConfig({autoStart:
\* true}), kept by the session-started event, dropped by every other task
NextReenabled(s, before) ==
    IF s.trace[1].op = "start()"
    THEN fatalSeen /\ config.autoStart /\ HasEvent(s.trace, "recognition.start", "ok")
    ELSE IF s.trace[1].op = "onstart" THEN before
    ELSE FALSE

\* stopped after the task whose result is s
NextStopped(s, before) ==
    IF s.trace[1].op = "stop()" THEN TRUE
    ELSE IF s.trace[1].op \in PublicCalls THEN FALSE
    ELSE IF s.trace[1].op \in {"utterance.onend", "utterance.onerror"} /\ s.trace[1].flag
    THEN FALSE
    ELSE before

\* the task's result becomes the next state
CommitWithin(s, maxRetry) ==
    /\ Bounded(s, maxRetry)
    /\ recognition' = s.recognition
    /\ speechSynthesis' = s.speechSynthesis
    /\ isListening' = s.isListening
    /\ isSpeaking' = s.isSpeaking
    /\ isErrorRecovery' = s.isErrorRecovery
    /\ errorRetryCount' = s.errorRetryCount
    /\ restartTimer' = s.restartTimer
    /\ currentUtterance' = s.currentUtterance
    /\ config' = s.config
    /\ handlers' = s.handlers
    /\ lang' = s.lang
    /\ engine' = s.engine
    /\ timers' = s.timers
    /\ utts' = s.utts
    /\ pending' = s.pending
    /\ fatalSeen' = NextFatalSeen(s, fatalSeen)
    /\ destroyed' = NextDestroyed(s, destroyed)
    /\ reenabled' = NextReenabled(s, reenabled)
    /\ stopped' = NextStopped(s, stopped)
    /\ trace' = s.trace

Commit(s) == CommitWithin(s, MaxRetry)

Init ==
    \E hasRecognition, hasSynthesis, autoStart, provideFeedback \in BOOLEAN :
        LET s == Construct(hasRecognition, hasSynthesis, autoStart, provideFeedback)
        IN  /\ recognition = s.recognition
            /\ speechSynthesis = s.speechSynthesis
            /\ isListening = s.isListening
            /\ isSpeaking = s.isSpeaking
            /\ isErrorRecovery = s.isErrorRecovery
            /\ errorRetryCount = s.errorRetryCount
            /\ restartTimer = s.restartTimer
            /\ currentUtterance = s.currentUtterance
            /\ config = s.config
            /\ handlers = s.handlers
            /\ lang = s.lang
            /\ engine = s.engine
            /\ timers = s.timers
            /\ utts = s.utts
            /\ pending = s.pending
            /\ fatalSeen = FALSE
            /\ destroyed = FALSE
            /\ reenabled = FALSE
            /\ stopped = FALSE
            /\ trace = s.trace

(* public calls made by the application *)
SpeakTexts == {"", "hello"}
BatteryTexts == {"", "Battery is at 80 percent and charging."}

Start ==
    \E jitter \in JitterSamples :
        Commit(StartListening(Enter(Cur, "start()", "", FALSE), jitter))

Stop == Commit(StopListening(Enter(Cur, "stop()", "", FALSE)))

SpeakCall ==
    \E text \in SpeakTexts : Commit(Speak(Enter(Cur, "speak()", text, FALSE), text))

StopSpeakingCall == Commit(StopSpeaking(Enter(Cur, "stopSpeaking()", "", FALSE)))

UpdateConfigCall ==
    \E newConfig \in Partials :
        Commit(UpdateConfig(Enter(Cur, "updateConfig()", "", FALSE), newConfig))

DestroyCall == Commit(Destroy(Enter(Cur, "destroy()", "", FALSE)))

(* events of the recognition engine *)
EngineStart ==
    /\ engine = "starting"
    /\ Commit(OnStart(Enter([Cur EXCEPT !.engine = "running"], "onstart", "", FALSE)))

\* onCheckBattery is only called, and its text only matters, on a battery command
AsksBattery(event) ==
    event.shape = "transcript" /\ IntentOfRaw[event.k].rule = "battery"

EngineResult ==
    /\ engine \in {"running", "stopping"}
    /\ \E event \in ResultEvents, battery \in BatteryTexts :
          /\ (battery # "") => AsksBattery(event)
          /\ Commit(OnResult(Enter([Cur EXCEPT !.engine = "ending"],
                                "onresult", event.shape, FALSE), event, battery))

EngineError ==
    /\ engine \in {"starting", "running", "stopping", "aborting"}
    /\ \E error \in EngineErrors, jitter \in JitterSamples :
          /\ (error = "aborted") <=> (engine = "aborting")
          /\ Commit(OnError(Enter([Cur EXCEPT !.engine = "ending"],
                                  "onerror", error, FALSE), error, jitter))

EngineEnd ==
    /\ engine \in {"running", "stopping", "aborting", "ending"}
    /\ Commit(OnEnd(Enter([Cur EXCEPT !.engine = "idle"], "onend", "", FALSE)))

(* timer callbacks *)
\* () => this.startListening()
RestartCallback(s, jitter) == StartListening(s, jitter)

\* variant: the recovery flag is left set
RetryCallbackKeepsFlag(s, jitter) == StartListening(s, jitter)

\* () => { this.isErrorRecovery = false; this.startListening(); }
RetryCallback(s, jitter) == StartListening([s EXCEPT !.isErrorRecovery = FALSE], jitter)

TimerFire ==
    \E t \in timers, jitter \in JitterSamples :
        LET s == Enter([Cur EXCEPT !.timers = @ \ {t}], "timer", t.kind, FALSE)
        IN  Commit(IF t.kind = "restart" THEN RestartCallback(s, jitter)
                   ELSE RetryCallback(s, jitter))

(* terminal events of the synthesis queue, oldest utterance first *)
Outcome(u) == IF u.cancelled THEN "interrupted" ELSE "finished"

UtteranceEnd ==
    /\ utts # <<>>
    /\ \E jitter \in JitterSamples :
          LET u == Head(utts)
              s == Enter([Cur EXCEPT !.utts = Tail(@)],
                         "utterance.onend", Outcome(u), u.wasListening)
          IN  Commit(UtteranceOnEnd(s, u, jitter))

UtteranceError ==
    /\ utts # <<>>
    /\ \E jitter \in JitterSamples :
          LET u == Head(utts)
              s == Enter([Cur EXCEPT !.utts = Tail(@)],
                         "utterance.onerror", Outcome(u), u.wasListening)
          IN  Commit(UtteranceOnError(s, u, jitter))

Next ==
    \/ Start
    \/ Stop
    \/ SpeakCall
    \/ StopSpeakingCall
    \/ UpdateConfigCall
    \/ DestroyCall
    \/ EngineStart
    \/ EngineResult
    \/ EngineError
    \/ EngineEnd
    \/ TimerFire
    \/ UtteranceEnd
    \/ UtteranceError

Spec == Init /\ [][Next]_vars

(* ---------------- the backoff computation on its own ---------------- *)
\* the controller after n failed attempts, when the retry timer has fired and
\* re-issued start: the session is starting and the counter still holds n
AfterAttempts(n) ==
    LET s == Construct(TRUE, TRUE, TRUE, TRUE)
    IN  IF n = 0 THEN s
        ELSE [s EXCEPT !.errorRetryCount = n, !.restartTimer = 1,
                       !.trace = << Ev("timer", "retry", FALSE, n),
                                    Ev("recognition.start", "ok", TRUE, 0) >>]

InitBackoff ==
    \E n \in 0..MaxAttempt :
        LET s == AfterAttempts(n)
        IN  /\ recognition = s.recognition
            /\ speechSynthesis = s.speechSynthesis
            /\ isListening = s.isListening
            /\ isSpeaking = s.isSpeaking
            /\ isErrorRecovery = s.isErrorRecovery
            /\ errorRetryCount = s.errorRetryCount
            /\ restartTimer = s.restartTimer
            /\ currentUtterance = s.currentUtterance
            /\ config = s.config
            /\ handlers = s.handlers
            /\ lang = s.lang
            /\ engine = s.engine
            /\ timers = s.timers
            /\ utts = s.utts
            /\ pending = s.pending
            /\ fatalSeen = FALSE
            /\ destroyed = FALSE
            /\ reenabled = FALSE
            /\ stopped = FALSE
            /\ trace = s.trace

\* one recoverable error, with every jitter Math.floor would distinguish
BackoffError ==
    /\ engine = "starting"
    /\ \E jitter \in 0..(JitterRange - 1) :
          CommitWithin(OnError(Enter([Cur EXCEPT !.engine = "ending"],
                                     "onerror", "network", FALSE), "network", jitter),
                       MaxAttempt + 1)

NextBackoff == BackoffError

SpecBackoff == InitBackoff /\ [][NextBackoff]_vars

(* ---------------- the command loop left to itself ---------------- *)
\* a controller with a recognition capability and autoStart=true, of which the
\* application only asks speech: no start(), stop(), updateConfig() or
\* destroy(), and the engine reports no fatal error
InitRecovery ==
    \E provideFeedback \in BOOLEAN :
        LET s == Construct(TRUE, TRUE, TRUE, provideFeedback)
        IN  /\ recognition = s.recognition
            /\ speechSynthesis = s.speechSynthesis
            /\ isListening = s.isListening
            /\ isSpeaking = s.isSpeaking
            /\ isErrorRecovery = s.isErrorRecovery
            /\ errorRetryCount = s.errorRetryCount
            /\ restartTimer = s.restartTimer
            /\ currentUtterance = s.currentUtterance
            /\ config = s.config
            /\ handlers = s.handlers
            /\ lang = s.lang
            /\ engine = s.engine
            /\ timers = s.timers
            /\ utts = s.utts
            /\ pending = s.pending
            /\ fatalSeen = FALSE
            /\ destroyed = FALSE
            /\ reenabled = FALSE
            /\ stopped = FALSE
            /\ trace = s.trace

\* an error event that is not fatal (no session is aborted here)
RecoveryError ==
    /\ engine \in {"starting", "running", "stopping"}
    /\ \E error \in EngineErrors \ (FatalErrors \cup {"aborted"}), jitter \in JitterSamples :
          Commit(OnError(Enter([Cur EXCEPT !.engine = "ending"],
                               "onerror", error, FALSE), error, jitter))

NextRecovery ==
    \/ SpeakCall
    \/ StopSpeakingCall
    \/ EngineStart
    \/ EngineResult
    \/ RecoveryError
    \/ EngineEnd
    \/ TimerFire
    \/ UtteranceEnd
    \/ UtteranceError

SpecRecovery == InitRecovery /\ [][NextRecovery]_vars

(* ---------------- reconfiguration at runtime ---------------- *)
Languages == {DefaultLanguage, "fr-FR"}

\* the partial configurations the application supplies: a new function for one
\* callback slot, a language, a feedback setting, or a language with a function
ConfigPartials ==
    {[f \in {slot} |-> 1] : slot \in CopiedSlots \cup ConfigSlots}
        \cup {[language |-> l] : l \in Languages}
        \cup {[provideFeedback |-> b] : b \in BOOLEAN}
        \cup {[language |-> l, onCheckBattery |-> 1] : l \in Languages}

\* the partial configuration an updateConfig call was given
Supplied(newConfig) ==
    [op |-> "partial", arg |-> "", flag |-> FALSE, num |-> 0, partial |-> newConfig]

Replaced(c) == {f \in CopiedSlots \cup ConfigSlots : c[f] # 0}

InitConfig ==
    \E provideFeedback \in BOOLEAN :
        LET s == Construct(TRUE, TRUE, TRUE, provideFeedback)
        IN  /\ recognition = s.recognition
            /\ speechSynthesis = s.speechSynthesis
            /\ isListening = s.isListening
            /\ isSpeaking = s.isSpeaking
            /\ isErrorRecovery = s.isErrorRecovery
            /\ errorRetryCount = s.errorRetryCount
            /\ restartTimer = s.restartTimer
            /\ currentUtterance = s.currentUtterance
            /\ config = s.config
            /\ handlers = s.handlers
            /\ lang = s.lang
            /\ engine = s.engine
            /\ timers = s.timers
            /\ utts = s.utts
            /\ pending = s.pending
            /\ fatalSeen = FALSE
            /\ destroyed = FALSE
            /\ reenabled = FALSE
            /\ stopped = FALSE
            /\ trace = s.trace

\* updateConfig(newConfig) with a language or a callback in newConfig
Reconfigure ==
    \E newConfig \in ConfigPartials :
        LET s == UpdateConfig(Log(Enter(Cur, "updateConfig()", "", FALSE),
                                  Supplied(newConfig)), newConfig)
        IN  /\ Cardinality(Replaced(s.config)) <= MaxReplaced
            /\ Commit(s)

NextConfig ==
    \/ Reconfigure
    \/ EngineStart
    \/ EngineResult
    \/ EngineError
    \/ EngineEnd
    \/ TimerFire
    \/ UtteranceEnd
    \/ UtteranceError

SpecConfig == InitConfig /\ [][NextConfig]_vars

(* ---------------- command matching on its own ---------------- *)
\* words and phrases the engine may put in a transcript, in the casing and with
\* the spacing it may give them (the empty word yields leading, trailing and
\* doubled spaces)
Words ==
    << <<>>,
       <<"c","l","o","s","e">>,
       <<"s","t","o","p">>,
       <<"O","p","e","n"," ","N","a","v","i","g","a","t","i","o","n">>,
       <<"r","e","a","d"," ","t","e","x","t">>,
       <<"s","e","t","t","i","n","g","s">>,
       <<"t","u","r","n"," ","h","a","p","t","i","c">>,
       <<"h","a","p","t","i","c">>,
       <<"h","a","p","t","i","c","s">>,
       <<"S","o","u","n","d">>,
       <<"O","N">>,
       <<"o","f","f">>,
       <<"s","t","a","r","t">>,
       <<"b","a","t","t","e","r","y">>,
       <<"h","e","l","l","o">>,
       <<"h","o","n","e","s","t">> >>

RECURSIVE Join(_)
Join(ws) ==
    IF ws = <<>> THEN <<>>
    ELSE IF Len(ws) = 1 THEN Words[ws[1]]
    ELSE Words[ws[1]] \o <<" ">> \o Join(Tail(ws))

\* the transcripts of at most MaxWords words
Transcripts ==
    {Join(ws) : ws \in UNION {[1..n -> 1..Len(Words)] : n \in 0..MaxWords}}

\* the transcript a result event carried, as the engine gave it
Heard(raw) == [op |-> "transcript", arg |-> "", flag |-> FALSE, num |-> 0, raw |-> raw]

\* recognition.onresult for a result event whose last result holds the
\* transcript raw
OnTranscript(s, raw, battery) ==
    LET s1 == ResetRetryCount(s)
        transcript == Normalize(raw)
    IN  IF transcript = <<>> THEN s1
        ELSE ProcessVoiceCommand(Status(s1, "Heard", TRUE), MatchCommand(transcript), battery)

\* a controller that is listening: constructed with autoStart, session started
Listening(provideFeedback) ==
    LET s == Construct(TRUE, TRUE, TRUE, provideFeedback)
    IN  OnStart(Enter([s EXCEPT !.engine = "running", !.trace = <<>>], "onstart", "", FALSE))

InitCommands ==
    \E provideFeedback \in BOOLEAN :
        LET s == Listening(provideFeedback)
        IN  /\ recognition = s.recognition
            /\ speechSynthesis = s.speechSynthesis
            /\ isListening = s.isListening
            /\ isSpeaking = s.isSpeaking
            /\ isErrorRecovery = s.isErrorRecovery
            /\ errorRetryCount = s.errorRetryCount
            /\ restartTimer = s.restartTimer
            /\ currentUtterance = s.currentUtterance
            /\ config = s.config
            /\ handlers = s.handlers
            /\ lang = s.lang
            /\ engine = s.engine
            /\ timers = s.timers
            /\ utts = s.utts
            /\ pending = s.pending
            /\ fatalSeen = FALSE
            /\ destroyed = FALSE
            /\ reenabled = FALSE
            /\ stopped = FALSE
            /\ trace = s.trace

\* the session's result event, with any transcript
HearCommand ==
    /\ engine = "running"
    /\ \E raw \in Transcripts, battery \in BatteryTexts :
          /\ (battery # "") => MatchCommand(Normalize(raw)).rule = "battery"
          /\ Commit(OnTranscript(Log(Enter([Cur EXCEPT !.engine = "ending"],
                                           "onresult", "transcript", FALSE), Heard(raw)),
                                 raw, battery))

NextCommands == HearCommand

SpecCommands == InitCommands /\ [][NextCommands]_vars

(* ---------------- what the last task did ---------------- *)
Entry == trace[1]

Count(tr, op, arg) == Cardinality({i \in 1..Len(tr) : tr[i].op = op /\ tr[i].arg = arg})

UtteranceTerminal == Entry.op \in {"utterance.onend", "utterance.onerror"}

\* the utterance whose terminal event ran had suspended recognition
SuspendingTerminal == UtteranceTerminal /\ Entry.flag

Parsed == HasEvent(trace, "onVoiceStatusChange", "Heard")

RecoverableHandled ==
    HasEvent(trace, "onVoiceStatusChange", "Voice connection issue. Retrying...")

LiveUtterance == \E i \in 1..Len(utts) : ~utts[i].cancelled

(* ---------------- claims ---------------- *)

\* C1: a recognition session and a spoken utterance are never active at the
\* same time: the controller is never listening on a running session while an
\* utterance that has not been cancelled is in the synthesis queue.
C1_NeverListeningWhileSpeaking ==
    ~(isListening /\ engine = "running" /\ LiveUtterance)

\* C2: after a fatal recognition error the controller issues no recognition
\* start on its own: the first recognition.start() after the error is issued
\* by an external start() call, never by a timer, a session end or an
\* utterance's terminal event.
C2_NoStartAfterFatal ==
    [][(fatalSeen /\ StartIssued(trace')) => trace'[1].op = "start()"]_vars

\* C3: the terminal event of an utterance whose speak call suspended
\* recognition re-starts recognition exactly once: its handler issues at most
\* one recognition.start(), and the engine accepts the start it issues (a
\* rejected start leaves the session either not resumed or resumed by a second
\* start).  A session the application aborted itself with stop() or destroy()
\* is left out.
C3_ResumedExactlyOnce ==
    (SuspendingTerminal /\ engine # "aborting") =>
        /\ Count(trace, "recognition.start", "ok")
              + Count(trace, "recognition.start", "throws") <= 1
        /\ ~HasEvent(trace, "recognition.start", "throws")

\* C4: when a second speak interrupted a first utterance that had suspended
\* recognition, the first utterance's interruption event does not re-start
\* recognition while the second utterance still awaits its terminal event.
C4_NoRestartOnInterruption ==
    (SuspendingTerminal /\ Entry.arg = "interrupted" /\ utts # <<>>)
        => ~HasEvent(trace, "recognition.start", "ok")

\* C5: every speak call owns its completion: the promises not yet resolved are
\* exactly those of the utterances still awaiting their terminal event, and a
\* terminal event resolves exactly one promise, that of its own utterance,
\* whether or not a later utterance is still being spoken.
C5_OwnCompletion ==
    /\ pending = Len(utts)
    /\ UtteranceTerminal => Count(trace, "resolve", "") = 1

C5_Witness ==
    /\ UtteranceTerminal /\ Entry.arg = "interrupted"
    /\ Count(trace, "resolve", "") = 1
    /\ Len(utts) = 1 /\ ~utts[1].cancelled /\ pending = 1

\* C6: speak("") and speak(x) with provideFeedback = false resolve at once and
\* change nothing: no utterance cancelled or started, recognition neither
\* stopped nor started, every field, the pending timer and the attempt counter
\* as before.
C6_SpeakSkipsChangeNothing ==
    [][(trace'[1].op = "speak()" /\ (trace'[1].arg = "" \/ ~config.provideFeedback))
          => /\ UNCHANGED << recognition, speechSynthesis, isListening, isSpeaking,
                             isErrorRecovery, errorRetryCount, restartTimer,
                             currentUtterance, config, engine, timers, utts,
                             pending, fatalSeen >>
             /\ Len(trace') = 2 /\ trace'[2].op = "resolve"]_vars

C6_Witness ==
    /\ Entry.op = "speak()" /\ Entry.arg = ""
    /\ Len(trace) = 2 /\ trace[2].op = "resolve"
    /\ config.provideFeedback /\ isListening /\ LiveUtterance

\* C7: at most one timer armed by the controller is pending, the restart
\* timer and the retry timer together.
C7_AtMostOneTimer == Cardinality(timers) <= 1

\* a pending timer was cancelled by the arming that replaced it
C7_Witness ==
    \E i, j \in 1..Len(trace) :
        /\ i < j
        /\ trace[i].op = "clearTimeout"
        /\ trace[j].op = "setTimeout"
        /\ Cardinality(timers) = 1

\* C8: a recoverable error handled with the attempt counter at n >= 1 after
\* the increment arms a delay d with
\* min(30000, 500 * 2^n) <= d < min(30000, 500 * 2^n) + 250.
C8_BackoffWindow ==
    \A i \in 1..Len(trace) :
        (trace[i].op = "setTimeout" /\ trace[i].arg = "retry") =>
            LET n == errorRetryCount
                base == IF 500 * (2 ^ n) <= 30000 THEN 500 * (2 ^ n) ELSE 30000
            IN  /\ n >= 1
                /\ base <= trace[i].num
                /\ trace[i].num < base + 250

\* a delay armed where the cap applies, with the largest jitter
C8_Witness ==
    /\ errorRetryCount >= 6
    /\ \E i \in 1..Len(trace) :
          trace[i].op = "setTimeout" /\ trace[i].arg = "retry" /\ trace[i].num = 30249

\* C9: right after a successfully parsed transcript the attempt counter is 0,
\* and a recoverable error that finds the counter at 0 is handled as attempt 1.
C9_ResetOnTranscript ==
    /\ Parsed => errorRetryCount = 0
    /\ (RecoverableHandled /\ Entry.num = 0) => errorRetryCount = 1

\* a transcript parsed after two failures
C9_Witness == Parsed /\ Entry.num >= 2 /\ errorRetryCount = 0

C11_StartIdempotent ==
    [][(trace'[1].op = "start()" /\ engine \in {"starting", "running"}) =>
          /\ ~HasEvent(trace', "onVoiceStatusChange", "Voice connection issue. Retrying...")
          /\ errorRetryCount' = errorRetryCount
          /\ timers' \subseteq timers]_vars

\* C12: stop(), in any state, leaves no timer pending, aborts the recognition
\* session (no session is starting, running or stopping afterwards), sets
\* isListening to false, reports the paused status with listening=false as its
\* last callback, and leaves the configuration and the attempt counter unchanged.
C12_StopEffect ==
    [][trace'[1].op = "stop()" =>
          /\ timers' = {}
          /\ recognition => HasEvent(trace', "recognition.abort", "")
          /\ engine' \notin {"starting", "running", "stopping"}
          /\ ~isListening'
          /\ trace'[Len(trace')] = Ev("onVoiceStatusChange", "Voice paused", FALSE, 0)
          /\ config' = config
          /\ errorRetryCount' = errorRetryCount]_vars

\* stop() has cancelled a pending timer and aborted a session after a failure
C12_Witness ==
    /\ Entry.op = "stop()"
    /\ HasEvent(trace, "clearTimeout", "cancelled")
    /\ engine = "aborting"
    /\ Entry.num >= 1
    /\ config.autoStart

\* C13: destroy() is terminal.  It sets autoStart to false, leaves no timer
\* pending, aborts the recognition session and cancels every utterance; and
\* for as long as no public call follows it, autoStart stays false and no task
\* arms a timer.
C13_DestroyIsTerminal ==
    destroyed =>
        /\ ~config.autoStart
        /\ ~\E i \in 1..Len(trace) : trace[i].op = "setTimeout"
        /\ Entry.op = "destroy()" =>
              /\ timers = {}
              /\ engine \notin {"starting", "running", "stopping"}
              /\ \A i \in 1..Len(utts) : utts[i].cancelled

\* C14: recovery is automatic.  With a recognition capability, autoStart=true
\* and no fatal error, stop() or destroy(), the loop never stalls: the
\* controller is never left with no session, no armed timer and no utterance
\* whose terminal event is still to come, since from such a state no event can
\* ever start a session again.
C14_LoopNeverStalls == ~(engine = "idle" /\ timers = {} /\ utts = <<>>)

\* C15: the Disabled state is left by updateConfig({autoStart: true}) followed
\* by start().  After a fatal error whose session has ended, that start()
\* begins a session; and when the session it began ends normally (nothing but
\* the session-started event happened to it), a restart is armed.
C15_LoopWorksAfterReenable ==
    [][/\ (fatalSeen /\ config.autoStart /\ engine = "idle" /\ trace'[1].op = "start()")
            => HasEvent(trace', "recognition.start", "ok")
       /\ (reenabled /\ trace'[1].op = "onend")
            => HasEvent(trace', "setTimeout", "restart")]_vars

(* ---------------- command matching ---------------- *)
\* the last task was a result event of SpecCommands that carried a transcript
HeardCommand == Len(trace) >= 2 /\ trace[2].op = "transcript"

\* the transcript after lower-casing and trimming
Command == Normalize(trace[2].raw)

AppCallbacks ==
    {"onModeClose", "onNavigationOpen", "onTextReadOpen", "onSettingsOpen",
     "onToggleSetting", "onCheckBattery"}

\* the application callbacks the task invoked, by position in the trace
Invoked == {i \in 1..Len(trace) : trace[i].op \in AppCallbacks}

\* utterances the task handed to the synthesis queue
Started == Count(trace, "speechSynthesis.speak", "")

KeywordOf(name, cmd) ==
    IF name = "haptic" THEN WordPatternTest(hapticKeywords, cmd)
    ELSE WordPatternTest(audioKeywords, cmd)

OnModifier(cmd) == WordPatternTest(onWords, cmd)
OffModifier(cmd) == WordPatternTest(offWords, cmd)

\* the rules of the priority order, as the specification words them
RuleOrder == <<"close", "navigation", "textRead", "settings", "toggle", "battery">>

RuleMatches(rule, cmd) ==
    IF rule = "close" THEN SomeIncludes(closePhrases, cmd)
    ELSE IF rule = "navigation" THEN SomeIncludes(navigationPhrases, cmd)
    ELSE IF rule = "textRead" THEN SomeIncludes(textReadPhrases, cmd)
    ELSE IF rule = "settings" THEN SomeIncludes(settingsPhrases, cmd)
    ELSE IF rule = "toggle"
    THEN (KeywordOf("haptic", cmd) \/ KeywordOf("audio", cmd))
            /\ (OnModifier(cmd) \/ OffModifier(cmd))
    ELSE Includes(cmd, batteryWord)

CallbackOf(rule) ==
    IF rule = "close" THEN "onModeClose"
    ELSE IF rule = "navigation" THEN "onNavigationOpen"
    ELSE IF rule = "textRead" THEN "onTextReadOpen"
    ELSE IF rule = "settings" THEN "onSettingsOpen"
    ELSE IF rule = "toggle" THEN "onToggleSetting"
    ELSE "onCheckBattery"

Matching(cmd) == {k \in 1..Len(RuleOrder) : RuleMatches(RuleOrder[k], cmd)}

FirstMatching(cmd) == CHOOSE k \in Matching(cmd) : \A j \in Matching(cmd) : k <= j

\* C16: first match wins in the order close, navigation, text-read, settings,
\* setting-toggle, battery: the callbacks invoked for a transcript are exactly
\* one invocation of the callback of the first rule that matches it, and none
\* when no rule matches.
C16_FirstMatchWins ==
    (HeardCommand /\ Command # <<>>) =>
        IF Matching(Command) = {} THEN Invoked = {}
        ELSE /\ Cardinality(Invoked) = 1
             /\ \A i \in Invoked : trace[i].op = CallbackOf(RuleOrder[FirstMatching(Command)])

\* "close settings" matches the close rule and the settings rule and fired
\* only the mode-close callback
C16_Witness ==
    /\ HeardCommand
    /\ Command = closePhrases[1] \o <<" ">> \o settingsPhrases[2]
    /\ Cardinality(Matching(Command)) >= 2
    /\ \E i \in Invoked : trace[i].op = "onModeClose"

HigherRuleMatches(cmd) ==
    \E k \in 1..4 : RuleMatches(RuleOrder[k], cmd)

\* C17: a transcript that matches no higher-priority rule, holds a setting
\* keyword as a whole word and holds an on/off modifier invokes exactly one
\* callback, onToggleSetting, for the first setting (haptic before audio) whose
\* keyword it holds, with true for an on modifier and false for an off modifier.
C17_ToggleIntent ==
    (/\ HeardCommand
     /\ ~HigherRuleMatches(Command)
     /\ KeywordOf("haptic", Command) \/ KeywordOf("audio", Command)
     /\ OnModifier(Command) \/ OffModifier(Command)) =>
        /\ Cardinality(Invoked) = 1
        /\ \A i \in Invoked :
              /\ trace[i].op = "onToggleSetting"
              /\ trace[i].arg = IF KeywordOf("haptic", Command) THEN "haptic" ELSE "audio"
              /\ (OnModifier(Command) /\ ~OffModifier(Command)) => trace[i].flag
              /\ (OffModifier(Command) /\ ~OnModifier(Command)) => ~trace[i].flag

\* "turn haptic off" called onToggleSetting('haptic', false)
C17_Witness ==
    /\ HeardCommand
    /\ Command = Join(<<7, 12>>)
    /\ \E i \in Invoked :
          trace[i].op = "onToggleSetting" /\ trace[i].arg = "haptic" /\ ~trace[i].flag

\* C18: a transcript that holds a setting keyword but no modifier, and no
\* keyword of another rule, dispatches nothing: no application callback is
\* invoked, speak is not entered and no utterance is started.
C18_KeywordAloneIsNoIntent ==
    (/\ HeardCommand
     /\ KeywordOf("haptic", Command) \/ KeywordOf("audio", Command)
     /\ ~OnModifier(Command) /\ ~OffModifier(Command)
     /\ ~HigherRuleMatches(Command)
     /\ ~RuleMatches("battery", Command)) =>
        /\ Invoked = {}
        /\ Started = 0
        /\ utts = <<>> /\ pending = 0

\* "haptic" alone was heard and nothing was dispatched
C18_Witness ==
    /\ HeardCommand
    /\ Command = hapticKeywords[1]
    /\ Invoked = {}
    /\ HasEvent(trace, "onVoiceStatusChange", "Heard")

\* C19 as claimed: a transcript that matches an intent invokes exactly one
\* application callback and starts exactly one utterance when provideFeedback
\* is true, none when it is false; a transcript that matches nothing invokes
\* no callback and starts no utterance.
C19_OneCallbackOneUtterance ==
    HeardCommand =>
        IF Matching(Command) # {}
        THEN /\ Cardinality(Invoked) = 1
             /\ Started = IF config.provideFeedback THEN 1 ELSE 0
        ELSE Invoked = {} /\ Started = 0

\* onCheckBattery was invoked and returned an empty status
EmptyStatus == \E i \in Invoked : trace[i].op = "onCheckBattery" /\ trace[i].arg = ""

\* C19 amended: as claimed, except that a battery intent whose status callback
\* returns an empty text starts no utterance.
C19_OneUtteranceUnlessEmptyStatus ==
    HeardCommand =>
        IF Matching(Command) # {}
        THEN /\ Cardinality(Invoked) = 1
             /\ Started = IF config.provideFeedback /\ ~EmptyStatus THEN 1 ELSE 0
        ELSE Invoked = {} /\ Started = 0

\* "open navigation" fired onNavigationOpen once and, feedback being enabled,
\* started one utterance
C19_Witness ==
    /\ HeardCommand
    /\ Command = navigationPhrases[1]
    /\ config.provideFeedback
    /\ Count(trace, "onNavigationOpen", "") = 1
    /\ Cardinality(Invoked) = 1
    /\ Started = 1

(* ---------------- status reports ---------------- *)
\* positions of the status callbacks in a task's trace
Statuses(tr) == {i \in 1..Len(tr) : tr[i].op = "onVoiceStatusChange"}

LastStatus(tr) == tr[CHOOSE i \in Statuses(tr) : \A j \in Statuses(tr) : j <= i]

\* C20 as claimed: the listening flag of the most recent status callback equals
\* isListening in every state.  Step by step: a task that changes isListening
\* makes a status callback, and the last status callback a task makes carries
\* the value isListening has when the task ends.
C20_EveryChangeReported ==
    [][/\ (isListening' # isListening) => Statuses(trace') # {}
       /\ Statuses(trace') # {} => LastStatus(trace').flag = isListening']_vars

\* C20 amended: every change of isListening to true is reported, and the last
\* status callback a task makes carries the value isListening has when the task
\* ends; a change to false may go unreported.
C20_ListeningIsReported ==
    [][/\ (isListening' /\ ~isListening) => Statuses(trace') # {}
       /\ Statuses(trace') # {} => LastStatus(trace').flag = isListening']_vars

\* a session started after a failure and was reported as listening
C20_Witness ==
    /\ Entry.op = "onstart"
    /\ Entry.num >= 1
    /\ isListening
    /\ Statuses(trace) # {}
    /\ LastStatus(trace).flag

(* ---------------- configuration ---------------- *)
\* C21: every callback slot is replaceable at runtime.  Whatever callback a task
\* invokes is the function the configuration holds for that slot, so after
\* updateConfig supplies a new function the next intent or status change
\* invokes the new one.
C21_CallbacksReplaceable ==
    \A i \in 1..Len(trace) :
        trace[i].op \in CopiedSlots \cup ConfigSlots => trace[i].num = config[trace[i].op]

\* C22: updateConfig(partial) replaces exactly the supplied fields of the
\* configuration and keeps the others; it makes no call on the engine, the
\* synthesis queue, the timers or the callbacks, and leaves isListening,
\* isSpeaking, the recovery flag, the attempt counter and the pending timer
\* unchanged; the language is put on the recognition handle, and every session
\* started afterwards is started in the configuration's language.
C22_UpdateConfigMerges ==
    [][/\ (trace'[1].op = "updateConfig()" /\ Len(trace') >= 2 /\ trace'[2].op = "partial") =>
            /\ DOMAIN config' = DOMAIN config
            /\ \A f \in DOMAIN config :
                  config'[f] = IF f \in DOMAIN trace'[2].partial
                               THEN trace'[2].partial[f] ELSE config[f]
            /\ Len(trace') = 2
            /\ UNCHANGED << isListening, isSpeaking, isErrorRecovery, errorRetryCount,
                            restartTimer, timers, engine, utts, pending, currentUtterance >>
            /\ recognition => lang' = config'.language
       /\ \A i \in 1..Len(trace') :
            (trace'[i].op = "recognition.start" /\ trace'[i].arg = "ok")
                => trace'[i].lang = config'.language]_vars

\* a session was started in the language that updateConfig supplied while the
\* previous session was running
C22_Witness ==
    /\ \E i \in 1..Len(trace) :
          trace[i].op = "recognition.start" /\ trace[i].arg = "ok" /\ trace[i].lang = "fr-FR"
    /\ config.language = "fr-FR"
    /\ Entry.op = "timer"

(* ---------------- error classes ---------------- *)
\* C23: an ignored recognition error (aborted, no-speech) only marks the
\* controller not-listening: it makes no call (no status, no timer) and leaves
\* the attempt counter, the recovery flag, the configuration, the pending timer
\* and the speech state as they are.
C23_IgnoredErrorOnlyUnlistens ==
    [][(trace'[1].op = "onerror" /\ trace'[1].arg \in {"aborted", "no-speech"}) =>
          /\ ~isListening'
          /\ Len(trace') = 1
          /\ UNCHANGED << errorRetryCount, isErrorRecovery, config, restartTimer, timers,
                          isSpeaking, utts, pending, currentUtterance >>]_vars

\* no-speech was reported after a failure, with the retry timer still pending
C23_Witness ==
    /\ Entry.op = "onerror"
    /\ Entry.arg = "no-speech"
    /\ errorRetryCount >= 1
    /\ timers # {}
    /\ ~isListening

\* C24: a fatal recognition error (not-allowed, service-not-allowed,
\* audio-capture) sets autoStart to false, reports a status with
\* listening=false, arms no timer and leaves the attempt counter as it found
\* it; once it is handled no timer is pending.
C24_FatalErrorDisables ==
    (Entry.op = "onerror" /\ Entry.arg \in FatalErrors) =>
        /\ ~config.autoStart
        /\ Statuses(trace) # {} /\ ~LastStatus(trace).flag
        /\ ~\E i \in 1..Len(trace) : trace[i].op = "setTimeout"
        /\ errorRetryCount = Entry.num
        /\ timers = {}

\* C25: a recoverable recognition error (start-failed included) adds exactly 1
\* to the attempt counter, sets the recovery flag and leaves exactly one timer
\* pending, the retry timer it armed after cancelling any other; when a retry
\* timer fires, the recovery flag is cleared and start is issued: the engine's
\* start() is called unless the controller is already listening, and a session
\* it accepts runs with the flag cleared.
C25_RecoverableErrorRetries ==
    [][/\ HasEvent(trace', "onVoiceStatusChange", "Voice connection issue. Retrying...") =>
            /\ errorRetryCount' = errorRetryCount + 1
            /\ isErrorRecovery'
            /\ Count(trace', "setTimeout", "retry") = 1
            /\ Cardinality(timers') = 1
            /\ \A t \in timers' : t.kind = "retry" /\ t.id = restartTimer'
       /\ (trace'[1].op = "timer" /\ trace'[1].arg = "retry") =>
            /\ isListening \/ StartIssued(trace')
            /\ HasEvent(trace', "recognition.start", "ok") => ~isErrorRecovery'
            /\ isListening => ~isErrorRecovery']_vars

\* a recoverable error has cancelled the pending timer and armed a new one
C25_Witness ==
    /\ Entry.op = "onerror"
    /\ Entry.arg = "network"
    /\ HasEvent(trace, "clearTimeout", "cancelled")
    /\ HasEvent(trace, "setTimeout", "retry")
    /\ errorRetryCount = Entry.num + 1

\* C26: a recognition error or end event that arrives while the recovery flag
\* or the speaking flag is set is an echo, not a new failure: it does not
\* change the attempt counter, arms or replaces no timer and does not change
\* autoStart.
C26_EchoesAreIgnored ==
    [][((isErrorRecovery \/ isSpeaking) /\ trace'[1].op \in {"onerror", "onend"}) =>
          /\ errorRetryCount' = errorRetryCount
          /\ timers' = timers
          /\ restartTimer' = restartTimer
          /\ config'.autoStart = config.autoStart]_vars

\* C27: a recognition.start() that throws inside startListening is caught and
\* handled as a recoverable error: nothing is thrown to the caller and, when
\* the task ends, a retry timer is pending.
C27_FailedStartIsRetried ==
    HasEvent(trace, "recognition.start", "throws") =>
        /\ ~\E i \in 1..Len(trace) : trace[i].op = "throw"
        /\ \E t \in timers : t.kind = "retry"

(* ---------------- speech completions ---------------- *)
\* C28: no caller of speak waits forever.  Every completion that is not yet
\* resolved belongs to an utterance whose terminal event the synthesis queue
\* still owes, cancelled utterances included, and every terminal event
\* resolves one completion; so when the owed events have been delivered no
\* completion is left unresolved.
C28_NoCallerWaitsForever ==
    [][/\ pending' = Len(utts')
       /\ trace'[1].op \in {"utterance.onend", "utterance.onerror"} =>
            /\ pending' = pending - 1
            /\ Len(utts') = Len(utts) - 1]_vars

\* the utterance that destroy() cancelled got its terminal event and the last
\* waiting caller was resolved
C28_Witness ==
    /\ UtteranceTerminal
    /\ Entry.arg = "interrupted"
    /\ destroyed
    /\ HasEvent(trace, "resolve", "")
    /\ pending = 0

(* ---------------- no recognition capability ---------------- *)
\* C29: without a recognition capability the constructor reports the
\* not-supported status with listening=false, and no session is ever started:
\* no task calls the engine or arms a timer, and isListening stays false.
C29_NoCapabilityNeverListens ==
    ~recognition =>
        /\ ~isListening
        /\ engine = "idle"
        /\ timers = {}
        /\ ~StartIssued(trace)
        /\ Entry.op = "constructor" =>
              trace[Len(trace)] = Ev("onVoiceStatusChange", "Speech recognition not supported",
                                     FALSE, 0)

\* without a capability, start() was called while a spoken utterance was pending
C29_Witness ==
    /\ ~recognition
    /\ Entry.op = "start()"
    /\ pending > 0
    /\ ~isListening

(* ---------------- the attempt counter and results ---------------- *)
\* C30: a result event that is not parsed (no results, no alternatives, or a
\* transcript empty after trimming) leaves the attempt counter as it was.
C30_UnparsedResultKeepsCount ==
    (Entry.op = "onresult" /\ ~Parsed) => errorRetryCount = Entry.num

(* ---------------- the end of a session ---------------- *)
\* the session's end event found neither the recovery flag nor the speaking
\* flag set (the handler changes neither)
PlainEnd == Entry.op = "onend" /\ ~isErrorRecovery /\ ~isSpeaking

TimersArmed(tr) == Cardinality({i \in 1..Len(tr) : tr[i].op = "setTimeout"})

\* C31: a session end with neither flag set marks the controller not listening;
\* with autoStart it arms exactly one restart timer (250 ms) and reports
\* nothing, without autoStart it arms no timer and reports the disabled status
\* with listening=false; and the firing of a restart timer issues a
\* recognition start.
C31_PlainEndRestartsOrDisables ==
    /\ PlainEnd =>
         /\ ~isListening
         /\ IF config.autoStart
            THEN /\ TimersArmed(trace) = 1
                 /\ trace[Len(trace)] = Ev("setTimeout", "restart", FALSE, RestartDelay)
                 /\ [id |-> restartTimer, kind |-> "restart"] \in timers
                 /\ Statuses(trace) = {}
            ELSE /\ TimersArmed(trace) = 0
                 /\ trace[Len(trace)] = Ev("onVoiceStatusChange", "Voice disabled", FALSE,
                                           handlers.onVoiceStatusChange)
    /\ (Entry.op = "timer" /\ Entry.arg = "restart") =>
         HasEvent(trace, "recognition.start", "ok")

\* the restart timer armed by a plain session end has fired and started a session
C31_Witness ==
    /\ Entry.op = "timer" /\ Entry.arg = "restart"
    /\ HasEvent(trace, "recognition.start", "ok")
    /\ engine = "starting"
    /\ config.autoStart

(* ---------------- utterances that suspended nothing ---------------- *)
\* C32: the terminal event of an utterance whose snapshot was false issues no
\* recognition start, clears no timer and leaves the speaking flag, the
\* listening state, the recovery state and the configuration as they were; it
\* resolves the call's completion (and drops the utterance reference).
C32_UnsuspendingTerminalOnlyResolves ==
    [][(/\ trace'[1].op \in {"utterance.onend", "utterance.onerror"}
        /\ ~trace'[1].flag) =>
           /\ ~StartIssued(trace')
           /\ ~HasEvent(trace', "clearTimeout", "cancelled")
           /\ trace'[Len(trace')] = Ev("resolve", "", FALSE, 0)
           /\ Len(trace') = 2
           /\ pending' = pending - 1
           /\ isSpeaking' = isSpeaking
           /\ isListening' = isListening
           /\ isErrorRecovery' = isErrorRecovery
           /\ errorRetryCount' = errorRetryCount
           /\ timers' = timers
           /\ restartTimer' = restartTimer
           /\ engine' = engine
           /\ config' = config]_vars

\* an interrupted utterance that had suspended nothing ended while a later,
\* suspending utterance was being spoken
C32_Witness ==
    /\ UtteranceTerminal
    /\ ~Entry.flag
    /\ HasEvent(trace, "resolve", "")
    /\ isSpeaking
    /\ utts # <<>>

(* ---------------- the battery intent ---------------- *)
\* the transcript's first matching rule is the battery rule
BatteryIntent ==
    /\ HeardCommand
    /\ Matching(Command) # {}
    /\ RuleOrder[FirstMatching(Command)] = "battery"

\* positions at which the task called onCheckBattery
BatteryChecks == {i \in 1..Len(trace) : trace[i].op = "onCheckBattery"}

\* positions at which the task handed an utterance to the synthesis queue
Utterances == {i \in 1..Len(trace) : trace[i].op = "speechSynthesis.speak"}

\* C33: a battery intent calls onCheckBattery exactly once, within the task
\* that processes the transcript; an utterance is started if and only if
\* provideFeedback is true and the returned text is not empty, it is started
\* after the call and its text is the returned text.
C33_BatteryStatusSpoken ==
    BatteryIntent =>
        /\ Cardinality(BatteryChecks) = 1
        /\ Invoked = BatteryChecks
        /\ \A i \in BatteryChecks :
              /\ Utterances # {} <=> (config.provideFeedback /\ trace[i].arg # "")
              /\ \A j \in Utterances : i < j /\ trace[j].text = trace[i].arg
        /\ Cardinality(Utterances) <= 1

\* "battery" was heard with feedback enabled and the status text was spoken
C33_Witness ==
    /\ BatteryIntent
    /\ config.provideFeedback
    /\ \E i \in BatteryChecks : trace[i].arg # ""
    /\ Cardinality(Utterances) = 1
    /\ Len(utts) = 1

(* ---------------- the close intent ---------------- *)
\* the task processed a transcript as a close/home intent
CloseIntent == Entry.op = "onresult" /\ HasEvent(trace, "onModeClose", "")

ModeCloses == {i \in 1..Len(trace) : trace[i].op = "onModeClose"}

Cancels == {i \in 1..Len(trace) : trace[i].op = "speechSynthesis.cancel"}

\* C34: on a close/home intent the synthesis queue is cancelled before
\* onModeClose is called, the confirmation is handed to the queue only after
\* the call, every utterance that was in flight is left cancelled, and the
\* terminal event of a cancelled utterance resolves its speak call.
C34_CloseCancelsThenCallsThenConfirms ==
    /\ CloseIntent =>
         /\ Cardinality(ModeCloses) = 1
         /\ \A m \in ModeCloses :
               /\ speechSynthesis => \E c \in Cancels : c < m
               /\ \A j \in Utterances :
                     m < j /\ trace[j].text = "Returning to home screen"
         /\ Utterances # {} <=> (config.provideFeedback /\ speechSynthesis)
         /\ \A i \in 1..Len(utts) :
               (i < Len(utts) \/ Utterances = {}) => utts[i].cancelled
         /\ pending = Len(utts)
    /\ (UtteranceTerminal /\ Entry.arg = "interrupted") =>
         Count(trace, "resolve", "") = 1

\* a close intent arrived while an utterance was being spoken: that utterance
\* is cancelled and the confirmation is queued behind it
C34_Witness ==
    /\ CloseIntent
    /\ Len(utts) = 2
    /\ utts[1].cancelled /\ ~utts[2].cancelled
    /\ Cardinality(Utterances) = 1

(* ---------------- the recovery flag ---------------- *)
RetryPending == \E t \in timers : t.kind = "retry"

\* C35: the recovery flag is never left stuck: whenever isErrorRecovery is
\* true, a retry timer is pending or autoStart is false.
C35_RecoveryFlagNeverStuck ==
    isErrorRecovery => (RetryPending \/ ~config.autoStart)

(* ---------------- the speaking flag ---------------- *)
\* an utterance whose speak call suspended recognition has not had its
\* terminal event yet
SuspendingInFlight == \E i \in 1..Len(utts) : utts[i].wasListening

\* C36: isSpeaking is true exactly while an utterance whose speak call
\* suspended recognition is in flight.
C36_SpeakingFlagMatchesUtterance == isSpeaking <=> SuspendingInFlight

(* ---------------- after destroy() ---------------- *)
\* C37: after destroy(), and until the application makes another call, no
\* task of the controller calls recognition.start(): no timer callback, no
\* session end, no terminal event of an utterance.
C37_NoStartAfterDestroy == destroyed => ~StartIssued(trace)

(* ---------------- after stop() ---------------- *)
\* C38: after stop(), until start() is called or an utterance that had
\* suspended recognition completes, the session's aborted-error and end events
\* arm no timer and no task calls recognition.start(), whatever autoStart is.
C38_StaysStopped ==
    stopped =>
        /\ ~\E i \in 1..Len(trace) : trace[i].op = "setTimeout"
        /\ ~StartIssued(trace)

(* ---------------- the controller's own starts ---------------- *)
\* the task is one of the controller's own: a timer callback or the terminal
\* event of an utterance
OwnTask == Entry.op \in {"timer", "utterance.onend", "utterance.onerror"}

\* C39: a recognition start that the controller issues itself is never
\* refused by the engine for a session that has not ended; a failed start
\* happens only inside an external start() call.
C39_OwnStartsNeverCollide ==
    OwnTask => ~HasEvent(trace, "recognition.start", "throws")

(* ---------------- the listening flag ---------------- *)
\* the engine has a session whose started event was delivered and whose end
\* event was not (it may be running, stopping, aborting or about to end)
SessionActive == engine \in {"running", "stopping", "aborting", "ending"}

\* C40: isListening never over-reports: whenever it is true an engine session
\* is active (the session-started event was delivered and the session has not
\* ended), and stop(), error events and end events leave it false.
C40_ListeningMeansSession ==
    /\ isListening => SessionActive
    /\ Entry.op \in {"stop()", "onerror", "onend"} => ~isListening

\* the controller listens on a running session that was started after a
\* failed attempt, with no speak call outstanding
C40_Witness ==
    /\ isListening
    /\ engine = "running"
    /\ Entry.op = "onstart"
    /\ pending = 0
    /\ errorRetryCount > 0
====
